---- MODULE Spec2Model ----
(***************************************************************************)
(* Optimistic locking of InventoryItem reservations                        *)
(* (recipes/handling-concurrency.md).                                      *)
(*                                                                         *)
(* The store holds InventoryItem aggregates, each with a version field, an *)
(* updatedAt timestamp and the reservations it owns.  Every caller runs    *)
(* the createReservation command: findById, InventoryItem.createReservation*)
(* on the loaded entity, em.flush; the command is wrapped in               *)
(* @RetryOnError(OptimisticLockError).                                     *)
(*                                                                         *)
(* A second, independent part models validatePassword of examples/app.js.  *)
(***************************************************************************)
EXTENDS Integers, FiniteSets, Sequences, TLC

\* ------------------------------------------------------------------ bounds
NumCallers == 3
NumItems == 2
MaxDate == 2
MaxTime == 1
MaxAttemptsBound == 2
NumUsers == 2
\* longest password tried
MaxPasswordLength == 8

Callers == 1..NumCallers
\* ids of the inventory items that exist in the store
ItemIds == 1..NumItems
\* ids a payload may carry: the existing ones and one that does not exist
PayloadIds == 1..(NumItems + 1)
Dates == 0..MaxDate
UserIds == 1..NumUsers

\* --------------------------------------------------------------- constants
InitialVersion == 1
\* examples/app.js
MIN_LENGTH == 5
MAX_LENGTH == 255

OK == "Ok"
OptimisticLockError == "OptimisticLockError"
ReservationOverlapException == "ReservationOverlapException"
RetryExhausted == "RetryExhausted"
NotFoundError == "NotFoundError"
ValidationError == "ValidationError"
None == "none"
\* what a caller that gave up between two attempts is left with
Abandoned == "Abandoned"

NoSnapshot == [loaded |-> FALSE]

VARIABLES
  store,        \* ItemIds -> [version, updatedAt, reservations]: the database
  now,          \* the wall clock read by new Date()
  maxAttempts,  \* the retry bound of @RetryOnError
  payload,      \* caller -> CreateReservationPayload
  pc,           \* caller -> "idle" | "load" | "mutate" | "flush" | "done"
  attempt,      \* caller -> number of the running attempt, from 1
  loads,        \* caller -> number of findById calls made
  commits,      \* caller -> number of em.flush calls made
  snapshot,     \* caller -> the entity in the caller's request context
  conflicts,    \* caller -> number of OptimisticLockErrors its flushes threw
  lastError,    \* caller -> the error thrown by the last attempt
  outcome,      \* caller -> what the command returned to its caller
  password,     \* the password of the request, as its numbers of characters
  validation    \* <<the result of validatePassword>>, <<>> before the call

pwvars == <<password, validation>>

vars == <<store, now, maxAttempts, payload, pc, attempt, loads, commits,
          conflicts, snapshot, lastError, outcome, password, validation>>

\* ------------------------------------------------------------ Reservation
\* A constructor that leaves the owning item unset.
ReservationUnowned(inventoryItem, startDate, endDate, userId) ==
  [id |-> 0, inventoryItem |-> 0, startDate |-> startDate,
   endDate |-> endDate, userId |-> userId]

\* reservation.entity.ts: the constructor only assigns its four arguments.
\* id 0 is an entity not yet inserted (BaseEntity assigns the id on insert).
Reservation(inventoryItem, startDate, endDate, userId) ==
  [id |-> 0, inventoryItem |-> inventoryItem, startDate |-> startDate,
   endDate |-> endDate, userId |-> userId]

\* ----------------------------------------------------- overlap evaluator
\* A comparison that is closed on one side only.
OverlapsOneSided(aStart, aEnd, bStart, bEnd) ==
  aStart < bEnd /\ bStart <= aEnd

\* "Find overlaping reservation logic": half-open intervals [start, end).
Overlaps(aStart, aEnd, bStart, bEnd) ==
  aStart < bEnd /\ bStart < aEnd

\* every(...) in place of some(...)
overlapingReservationEvery(reservations, startDate, endDate) ==
  \A r \in reservations : Overlaps(startDate, endDate, r.startDate, r.endDate)

\* this.reservations.some(...)
overlapingReservation(reservations, startDate, endDate) ==
  \E r \in reservations : Overlaps(startDate, endDate, r.startDate, r.endDate)

\* throw new ReservationOverlapException(): some(...) yields a boolean and the
\* constructor gets no argument, so the error carries no reservation.
ErrorDetails(err) ==
  {}

\* --------------------------------------------------------- retry policy
\* Variants of the retried error class.
RetryOnErrorNone(err) ==
  FALSE

RetryOnErrorAny(err) ==
  TRUE

RetryOnErrorOverlap(err) ==
  err \in {OptimisticLockError, ReservationOverlapException}

\* @RetryOnError(OptimisticLockError): the one error class that is retried.
RetryOnError(err) ==
  err = OptimisticLockError

\* A loop that allows one attempt more than max.
AfterErrorOneMore(err, k, max) ==
  IF RetryOnError(err)
    THEN IF k <= max THEN "retry" ELSE RetryExhausted
    ELSE err

\* What the decorator does with an error thrown by attempt k of max.
AfterError(err, k, max) ==
  IF RetryOnError(err)
    THEN IF k < max THEN "retry" ELSE RetryExhausted
    ELSE err

\* ------------------------------------------------------------------ store
\* A flush that finds every loaded version stale.
VersionMatchesNever(persisted, loadedVersion) ==
  FALSE

\* A flush that does not compare versions.
VersionMatchesAlways(persisted, loadedVersion) ==
  TRUE

\* Version check of the UPDATE issued by em.flush.
VersionMatches(persisted, loadedVersion) ==
  persisted.version = loadedVersion

\* A flush that bumps the version by two.
NextVersionSkips(version) ==
  version + 2

\* A flush that leaves the version as it was.
NextVersionSame(version) ==
  version

\* The version field after a successful flush.
NextVersion(version) ==
  version + 1

\* A lazy collection: the reservations are not loaded with the item.
LazyReservations(item) ==
  {}

\* @OneToMany({ eager: true }): findById returns the item with all of its
\* current reservations.
LoadedReservations(item) ==
  item.reservations

\* ids the INSERT gives to the new reservations of a flush
AllReservations ==
  UNION {store[i].reservations : i \in ItemIds}

NextId ==
  Cardinality(AllReservations) + 1

\* ------------------------------------------------------ validatePassword
\* A password is seen through what the rules count: its uppercase letters,
\* lowercase letters, digits, symbols and other characters (spaces).
Passwords ==
  {p \in [upper : 0..MaxPasswordLength, lower : 0..MaxPasswordLength,
          digits : 0..MaxPasswordLength, symbols : 0..MaxPasswordLength,
          other : 0..MaxPasswordLength] :
     p.upper + p.lower + p.digits + p.symbols + p.other <= MaxPasswordLength}

Length(p) ==
  p.upper + p.lower + p.digits + p.symbols + p.other

\* the request has not been made
NoPassword == [upper |-> 0, lower |-> 0, digits |-> 0, symbols |-> 0, other |-> 0]

\* passwordValidator.validate(password, { details: true }): the failed rules
FailedRules(p) ==
  {rule \in {"min", "max", "uppercase", "lowercase", "digits", "symbols"} :
     \/ rule = "min" /\ ~(Length(p) >= MIN_LENGTH)
     \/ rule = "max" /\ ~(Length(p) <= MAX_LENGTH)
     \/ rule = "uppercase" /\ ~(p.upper >= 1)
     \/ rule = "lowercase" /\ ~(p.lower >= 1)
     \/ rule = "digits" /\ ~(p.digits >= 2)
     \/ rule = "symbols" /\ ~(p.symbols >= 2)}

validatePassword(p) ==
  [isValid |-> Cardinality(FailedRules(p)) = 0, details |-> FailedRules(p)]

TypeOK ==
  /\ now \in 0..MaxTime
  /\ maxAttempts \in 1..MaxAttemptsBound
  /\ \A c \in Callers : pc[c] \in {"idle", "load", "mutate", "flush", "done"}
  /\ \A c \in Callers : attempt[c] \in 1..maxAttempts
  /\ \A i \in ItemIds : store[i].version \in Nat /\ store[i].updatedAt \in 0..MaxTime

\* CreateReservationPayload
Payloads ==
  [inventoryItemId : PayloadIds, startDate : Dates, endDate : Dates, userId : UserIds]

\* Callers are interchangeable: the initial payloads are taken in one order only.
PayloadCode(p) ==
  ((p.inventoryItemId * (MaxDate + 1) + p.startDate) * (MaxDate + 1) + p.endDate)
     * (NumUsers + 1) + p.userId

Ordered(p) ==
  \A c \in 1..(NumCallers - 1) : PayloadCode(p[c]) <= PayloadCode(p[c + 1])

\* The state after construction: every item is new (version = 1, no
\* reservation) and the callers in `active` are about to run the command.
InitWith(active) ==
  /\ store = [i \in ItemIds |->
                [version |-> InitialVersion, updatedAt |-> 0, reservations |-> {}]]
  /\ now = 0
  /\ maxAttempts \in 1..MaxAttemptsBound
  /\ pc = [c \in Callers |-> IF c \in active THEN "load" ELSE "idle"]
  /\ attempt = [c \in Callers |-> 1]
  /\ loads = [c \in Callers |-> 0]
  /\ commits = [c \in Callers |-> 0]
  /\ conflicts = [c \in Callers |-> 0]
  /\ snapshot = [c \in Callers |-> NoSnapshot]
  /\ lastError = [c \in Callers |-> None]
  /\ outcome = [c \in Callers |-> None]

\* No password request is made.
NoRequest ==
  /\ password = NoPassword
  /\ validation = <<>>

\* Every caller runs the command, with any payload.  Here all act for user 1;
\* ContendSpec and PairSpec vary the user.
Init ==
  /\ InitWith(Callers)
  /\ NoRequest
  /\ payload \in [Callers -> {p \in Payloads : p.userId = 1}]
  /\ Ordered(payload)

\* Two callers race on item 1 with well-formed windows; the others make no call.
InitPair ==
  /\ InitWith({1, 2})
  /\ NoRequest
  /\ \E p1, p2 \in Payloads :
       /\ p1.inventoryItemId = 1 /\ p1.startDate < p1.endDate
       /\ p2.inventoryItemId = 1 /\ p2.startDate < p2.endDate
       /\ payload = [c \in Callers |-> IF c = 2 THEN p2 ELSE p1]

\* Every caller works on item 1, for any window and any user.
InitContend ==
  /\ InitWith(Callers)
  /\ NoRequest
  /\ payload \in [Callers -> {p \in Payloads : p.inventoryItemId = 1}]
  /\ payload[1].userId = 1   \* users are interchangeable too
  /\ Ordered(payload)

\* Every caller books a well-formed window on item 1 for user 1.
InitTrio ==
  /\ InitWith(Callers)
  /\ NoRequest
  /\ payload \in [Callers -> {p \in Payloads : /\ p.inventoryItemId = 1
                                               /\ p.startDate < p.endDate
                                               /\ p.userId = 1}]
  /\ Ordered(payload)

\* The decorator's handling of an error thrown inside attempt[c].
Throw(c, err) ==
  LET next == AfterError(err, attempt[c], maxAttempts) IN
  /\ lastError' = [lastError EXCEPT ![c] = err]
  /\ snapshot' = [snapshot EXCEPT ![c] = NoSnapshot]
  /\ IF next = "retry"
       THEN /\ pc' = [pc EXCEPT ![c] = "load"]
            /\ attempt' = [attempt EXCEPT ![c] = @ + 1]
            /\ outcome' = outcome
       ELSE /\ pc' = [pc EXCEPT ![c] = "done"]
            /\ attempt' = attempt
            /\ outcome' = [outcome EXCEPT ![c] = next]

\* const inventoryItem = await this.repository.findById(id)
Load(c) ==
  /\ pc[c] = "load"
  /\ loads' = [loads EXCEPT ![c] = @ + 1]
  /\ IF payload[c].inventoryItemId \in ItemIds
       THEN /\ snapshot' = [snapshot EXCEPT ![c] =
                 [loaded |-> TRUE,
                  id |-> payload[c].inventoryItemId,
                  version |-> store[payload[c].inventoryItemId].version,
                  updatedAt |-> store[payload[c].inventoryItemId].updatedAt,
                  reservations |-> LoadedReservations(store[payload[c].inventoryItemId])]]
            /\ pc' = [pc EXCEPT ![c] = "mutate"]
            /\ UNCHANGED <<attempt, lastError, outcome>>
       ELSE Throw(c, NotFoundError)
  /\ UNCHANGED <<store, now, maxAttempts, payload, commits, conflicts, pwvars>>

\* A mutation that adds no reservation.
MutatedAddsNothing(item, startDate, endDate, userId, t) ==
  [item EXCEPT !.updatedAt = t]

\* A mutation that also bumps the version in memory.
MutatedBumpsVersion(item, startDate, endDate, userId, t) ==
  [item EXCEPT !.reservations = @ \cup {Reservation(item.id, startDate, endDate, userId)},
               !.updatedAt = t,
               !.version = @ + 1]

\* The entity after createReservation found no overlap: one more reservation
\* in the collection, updatedAt = new Date().
Mutated(item, startDate, endDate, userId, t) ==
  [item EXCEPT !.reservations = @ \cup {Reservation(item.id, startDate, endDate, userId)},
               !.updatedAt = t]

\* inventoryItem.createReservation(startDate, endDate, userId)
createReservation(c) ==
  /\ pc[c] = "mutate"
  /\ IF overlapingReservation(snapshot[c].reservations,
                              payload[c].startDate, payload[c].endDate)
       THEN /\ Throw(c, ReservationOverlapException)
            /\ now' = now
       ELSE \E t \in now..MaxTime :
            /\ now' = t
            /\ snapshot' = [snapshot EXCEPT ![c] =
                 Mutated(snapshot[c], payload[c].startDate, payload[c].endDate,
                         payload[c].userId, t)]
            /\ pc' = [pc EXCEPT ![c] = "flush"]
            /\ UNCHANGED <<attempt, lastError, outcome>>
  /\ UNCHANGED <<store, maxAttempts, payload, loads, commits, conflicts, pwvars>>

\* await this.em.flush()
Flush(c) ==
  /\ pc[c] = "flush"
  /\ commits' = [commits EXCEPT ![c] = @ + 1]
  /\ LET id == snapshot[c].id
         added == {r \in snapshot[c].reservations : r.id = 0} IN
     IF VersionMatches(store[id], snapshot[c].version)
       THEN /\ store' = [store EXCEPT ![id] =
                 [version |-> NextVersion(store[id].version),
                  updatedAt |-> snapshot[c].updatedAt,
                  reservations |-> store[id].reservations \cup
                                   {[r EXCEPT !.id = NextId] : r \in added}]]
            /\ pc' = [pc EXCEPT ![c] = "done"]
            /\ outcome' = [outcome EXCEPT ![c] = OK]
            /\ snapshot' = [snapshot EXCEPT ![c] = NoSnapshot]
            /\ UNCHANGED <<attempt, lastError, conflicts>>
       ELSE /\ Throw(c, OptimisticLockError)
            /\ conflicts' = [conflicts EXCEPT ![c] = @ + 1]
            /\ store' = store
  /\ UNCHANGED <<now, maxAttempts, payload, loads, pwvars>>

Next ==
  \E c \in Callers : Load(c) \/ createReservation(c) \/ Flush(c)

\* No other caller is inside the command: each has returned or not started.
Quiet(c) ==
  \A d \in Callers \ {c} :
    pc[d] \in {"idle", "done"} \/ (pc[d] = "load" /\ loads[d] = 0)

\* The commands run one after the other.
SoloNext ==
  \E c \in Callers :
    Quiet(c) /\ (Load(c) \/ createReservation(c) \/ Flush(c))

\* The caller gives up at an attempt boundary: before the load of an attempt.
Abandon(c) ==
  /\ pc[c] = "load"
  /\ pc' = [pc EXCEPT ![c] = "done"]
  /\ outcome' = [outcome EXCEPT ![c] = Abandoned]
  /\ UNCHANGED <<store, now, maxAttempts, payload, attempt, loads, commits,
                 conflicts, snapshot, lastError, pwvars>>

NextOrAbandon ==
  \E c \in Callers : Load(c) \/ createReservation(c) \/ Flush(c) \/ Abandon(c)

\* handleRequest: validatePassword(req.body?.password)
handleRequest ==
  /\ validation = <<>>
  /\ validation' = <<validatePassword(password)>>
  /\ UNCHANGED <<store, now, maxAttempts, payload, pc, attempt, loads, commits,
                 conflicts, snapshot, lastError, outcome, password>>

\* One request with any password; no reservation command runs.
InitPassword ==
  /\ InitWith({})
  /\ maxAttempts = 1
  /\ payload = [c \in Callers |->
                  [inventoryItemId |-> 1, startDate |-> 0, endDate |-> 1, userId |-> 1]]
  /\ password \in Passwords
  /\ validation = <<>>

Spec == Init /\ [][Next]_vars

ContendSpec == InitContend /\ [][Next]_vars

PasswordSpec == InitPassword /\ [][handleRequest]_vars

\* Two racing callers, each of which may give up between attempts.
AbandonSpec == InitPair /\ [][NextOrAbandon]_vars

\* Each caller is an asynchronous task of the event loop: a pending step of a
\* caller is eventually run.
PairSpec ==
  /\ InitPair
  /\ [][Next]_vars
  /\ \A c \in Callers : WF_vars(Load(c) \/ createReservation(c) \/ Flush(c))

\* The calls do not overlap in time: a writer never has a concurrent writer.
SoloSpec == Init /\ [][SoloNext]_vars

\* All callers contend for item 1; a pending step of a caller is eventually run.
TrioSpec ==
  /\ InitTrio
  /\ [][Next]_vars
  /\ \A c \in Callers : WF_vars(Load(c) \/ createReservation(c) \/ Flush(c))


\* ------------------------------------------------------------------ claims
Done(c) == pc[c] = "done"

\* the item a caller's payload names, when it exists
ItemOf(c) == payload[c].inventoryItemId

WindowsOverlap(a, b) ==
  /\ payload[a].startDate < payload[b].endDate
  /\ payload[b].startDate < payload[a].endDate

WindowsTouch(a, b) ==
  \/ payload[a].endDate = payload[b].startDate
  \/ payload[b].endDate = payload[a].startDate

\* C1: in every reachable state of the store, whatever the interleaving of the
\* callers working on one item, no two reservations of an item overlap
\* (a.start < b.end and b.start < a.end), whatever their userId.
C1_NoOverlappingReservations ==
  \A i \in ItemIds : \A a, b \in store[i].reservations :
    a # b => ~(a.startDate < b.endDate /\ b.startDate < a.endDate)

\* Two reservations of different users are persisted and a third caller, after
\* losing a commit race, was refused for overlap.
C1_Witness ==
  \E i \in ItemIds : \E a, b \in store[i].reservations : \E c \in Callers :
    /\ a # b /\ a.userId # b.userId
    /\ a.startDate < a.endDate /\ b.startDate < b.endDate
    /\ outcome[c] = ReservationOverlapException /\ conflicts[c] >= 1

\* C2 as stated: two callers racing for overlapping windows on a new item end
\* with exactly one success and one OverlapConflict.
C2_Original ==
  (Done(1) /\ Done(2) /\ WindowsOverlap(1, 2)) =>
    \/ outcome[1] = OK /\ outcome[2] = ReservationOverlapException
    \/ outcome[2] = OK /\ outcome[1] = ReservationOverlapException

\* C2 amended: with maxAttempts >= 2, two callers racing for overlapping
\* windows on a new item end with exactly one success and one OverlapConflict
\* (never two successes, never RetryExhausted).
C2_ExactlyOneWins ==
  (maxAttempts >= 2 /\ Done(1) /\ Done(2) /\ WindowsOverlap(1, 2)) =>
    /\ \/ outcome[1] = OK /\ outcome[2] = ReservationOverlapException
       \/ outcome[2] = OK /\ outcome[1] = ReservationOverlapException
    /\ Cardinality(store[1].reservations) = 1

\* The loser first lost the commit race, then found the winner's reservation.
C2_Witness ==
  /\ maxAttempts >= 2 /\ WindowsOverlap(1, 2)
  /\ payload[1] # payload[2]
  /\ outcome[1] = OK /\ outcome[2] = ReservationOverlapException
  /\ conflicts[2] = 1 /\ loads[2] = 2

\* C3 as stated: two callers racing for touching windows both end in success
\* and the item then holds 2 reservations.
C3_Original ==
  (Done(1) /\ Done(2) /\ WindowsTouch(1, 2) /\ ~WindowsOverlap(1, 2)) =>
    /\ outcome[1] = OK /\ outcome[2] = OK
    /\ Cardinality(store[1].reservations) = 2

\* C3 amended: with maxAttempts >= 2, two callers racing for touching windows
\* both eventually end in success, and the item then holds 2 reservations.
C3_BothEventuallySucceed ==
  (maxAttempts >= 2 /\ WindowsTouch(1, 2) /\ ~WindowsOverlap(1, 2)) ~>
    (/\ outcome[1] = OK /\ outcome[2] = OK
     /\ Cardinality(store[1].reservations) = 2)

\* Both succeeded, one of them after a retry.
C3_Witness ==
  /\ maxAttempts >= 2 /\ WindowsTouch(1, 2) /\ ~WindowsOverlap(1, 2)
  /\ outcome[1] = OK /\ outcome[2] = OK
  /\ Cardinality(store[1].reservations) = 2
  /\ conflicts[1] + conflicts[2] = 1

\* the step is caller c's em.flush
IsFlush(c) == pc[c] = "flush" /\ commits'[c] = commits[c] + 1

\* C4: the persisted version starts at 1; a successful commit makes it the
\* version its committer loaded plus 1; it never decreases, never skips a
\* value and does not change on a rejected commit.
C4_VersionIncrements ==
  /\ \A i \in ItemIds : store[i].version = 1
  /\ [][\A i \in ItemIds :
          /\ store'[i].version \in {store[i].version, store[i].version + 1}
          /\ \A c \in Callers : (IsFlush(c) /\ snapshot[c].id = i) =>
               IF outcome'[c] = OK
                 THEN store'[i].version = snapshot[c].version + 1
                 ELSE store'[i].version = store[i].version
          /\ store'[i].version # store[i].version =>
               \E c \in Callers :
                 IsFlush(c) /\ snapshot[c].id = i /\ outcome'[c] = OK]_vars

\* An item went through two commits and a caller had a commit rejected.
C4_Witness ==
  \E i \in ItemIds : \E c \in Callers :
    store[i].version = 3 /\ conflicts[c] >= 1 /\ ItemOf(c) = i

\* C5: a commit whose loaded version differs from the persisted one is
\* rejected with OptimisticLockError and leaves the store as it was; a commit
\* whose loaded version equals the persisted one is accepted.
C5_CommitChecksVersion ==
  [][\A c \in Callers : IsFlush(c) =>
       IF store[snapshot[c].id].version # snapshot[c].version
         THEN /\ store' = store
              /\ lastError'[c] = OptimisticLockError
              /\ conflicts'[c] = conflicts[c] + 1
              /\ outcome'[c] # OK
         ELSE /\ outcome'[c] = OK
              /\ conflicts'[c] = conflicts[c]
              /\ store'[snapshot[c].id].version = snapshot[c].version + 1
              /\ store'[snapshot[c].id].updatedAt = snapshot[c].updatedAt
              /\ \E r \in store'[snapshot[c].id].reservations :
                   /\ r \notin store[snapshot[c].id].reservations
                   /\ r.startDate = payload[c].startDate
                   /\ r.endDate = payload[c].endDate]_vars

\* A caller had a commit rejected while another one's was accepted.
C5_Witness ==
  \E a, b \in Callers :
    /\ a # b /\ ItemOf(a) = ItemOf(b)
    /\ conflicts[a] >= 1 /\ outcome[b] = OK

\* C6: once an attempt fails with ReservationOverlapException the command makes
\* no further load, mutation or commit and returns that error to its caller,
\* even when attempts remain.
C6_OverlapNotRetried ==
  [][\A c \in Callers : lastError[c] = ReservationOverlapException =>
       /\ Done(c) /\ outcome[c] = ReservationOverlapException
       /\ pc'[c] = pc[c] /\ outcome'[c] = outcome[c]
       /\ loads'[c] = loads[c] /\ commits'[c] = commits[c]
       /\ attempt'[c] = attempt[c] /\ snapshot'[c] = snapshot[c]]_vars

\* An overlap stopped a call at its first attempt although a second was allowed.
C6_Witness ==
  \E c \in Callers :
    /\ outcome[c] = ReservationOverlapException
    /\ attempt[c] < maxAttempts

\* C7: every call returns one of Ok, ValidationError, OverlapConflict,
\* RetryExhausted, NotFoundError; OptimisticLockError is never what the caller
\* gets, for any maxAttempts >= 1.
C7_LockErrorNeverSurfaces ==
  \A c \in Callers :
    /\ outcome[c] # OptimisticLockError
    /\ Done(c) => outcome[c] \in {OK, ValidationError, ReservationOverlapException,
                                  RetryExhausted, NotFoundError}
    /\ ~Done(c) => outcome[c] = None

\* A caller whose every commit threw OptimisticLockError has returned.
C7_Witness ==
  \E c \in Callers :
    /\ Done(c) /\ conflicts[c] = maxAttempts /\ maxAttempts = MaxAttemptsBound
    /\ lastError[c] = OptimisticLockError

\* C8: with maxAttempts = N, a call whose every commit is rejected with
\* OptimisticLockError makes exactly N loads and then returns RetryExhausted,
\* the last error being that conflict.
C8_ExactlyMaxAttemptsLoads ==
  \A c \in Callers :
    /\ conflicts[c] <= maxAttempts /\ loads[c] <= maxAttempts
    /\ conflicts[c] = maxAttempts =>
         /\ Done(c) /\ outcome[c] = RetryExhausted
         /\ loads[c] = maxAttempts
    /\ outcome[c] = RetryExhausted =>
         /\ conflicts[c] = maxAttempts /\ loads[c] = maxAttempts
         /\ commits[c] = maxAttempts
         /\ lastError[c] = OptimisticLockError

\* A call gave up after the largest allowed number of attempts.
C8_Witness ==
  \E c \in Callers :
    /\ outcome[c] = RetryExhausted
    /\ maxAttempts = MaxAttemptsBound /\ loads[c] = MaxAttemptsBound

\* C9: createReservation with startDate >= endDate on an existing item fails
\* with ValidationError after one load, and leaves the item as it was.
C9_InvalidWindowRejected ==
  \A c \in Callers :
    (Done(c) /\ ItemOf(c) \in ItemIds
       /\ payload[c].startDate >= payload[c].endDate) =>
      /\ outcome[c] = ValidationError
      /\ loads[c] = 1 /\ commits[c] = 0

\* C10: every persisted reservation has startDate < endDate.
C10_PersistedWindowsWellFormed ==
  \A i \in ItemIds : \A r \in store[i].reservations : r.startDate < r.endDate


\* the step is caller c's in-memory createReservation
IsMutate(c) == pc[c] = "mutate" /\ pc'[c] # "mutate"

\* C11: the overlap check answers true exactly when a.start < b.end and
\* b.start < a.end: createReservation throws ReservationOverlapException
\* exactly when a loaded reservation intersects the requested window; a touching
\* or disjoint reservation never makes it throw, an identical one always does.
C11_OverlapsIffIntersect ==
  [][\A c \in Callers : IsMutate(c) =>
       LET s == payload[c].startDate
           e == payload[c].endDate
           thrown == pc'[c] = "done" /\ lastError'[c] = ReservationOverlapException
       IN
       /\ thrown <=> \E r \in snapshot[c].reservations :
                       s < r.endDate /\ r.startDate < e
       /\ (\A r \in snapshot[c].reservations : e <= r.startDate \/ r.endDate <= s)
            => ~thrown
       /\ (\E r \in snapshot[c].reservations : r.startDate = s /\ r.endDate = e)
            => thrown]_vars

\* A request was refused because the very same window had been persisted.
C11_Witness ==
  \E a, b \in Callers :
    /\ outcome[a] = OK /\ outcome[b] = ReservationOverlapException
    /\ payload[a].startDate = payload[b].startDate
    /\ payload[a].endDate = payload[b].endDate

\* C12: Overlaps is commutative: Overlaps(a, b) = Overlaps(b, a) for the
\* windows of any two requests, well-formed or not.
C12_OverlapsCommutative ==
  \A a, b \in Callers :
    Overlaps(payload[a].startDate, payload[a].endDate,
             payload[b].startDate, payload[b].endDate)
      = Overlaps(payload[b].startDate, payload[b].endDate,
                 payload[a].startDate, payload[a].endDate)

\* The check was applied to two different windows sharing an end point, and
\* refused the second request.
C12_Witness ==
  \E a, b \in Callers :
    /\ outcome[a] = OK /\ outcome[b] = ReservationOverlapException
    /\ payload[a].endDate = payload[b].endDate
    /\ payload[a].startDate # payload[b].startDate


\* a reservation persisted for item i intersects caller c's window
Blocked(c, i) ==
  \E r \in store[i].reservations :
    payload[c].startDate < r.endDate /\ r.startDate < payload[c].endDate

\* C13: once a call has returned ReservationOverlapException, the conflicting
\* reservation stays persisted, and any other call with identical input never
\* succeeds afterwards: a load it makes from then on sees the conflict and its
\* createReservation throws the same ReservationOverlapException, whatever
\* other callers commit in between.
C13_OverlapConflictIsStable ==
  [][\A a, b \in Callers :
       (a # b /\ payload[a] = payload[b]
          /\ outcome[a] = ReservationOverlapException) =>
         /\ outcome'[a] = ReservationOverlapException
         /\ Blocked(a, ItemOf(a)) /\ Blocked(a, ItemOf(a))'
         /\ outcome[b] # OK => outcome'[b] # OK
         /\ (pc[b] = "load" /\ pc'[b] # "load") =>
              /\ pc'[b] = "mutate"
              /\ overlapingReservation(snapshot'[b].reservations,
                                       payload[b].startDate, payload[b].endDate)
         /\ IsMutate(b) =>
              (overlapingReservation(snapshot[b].reservations,
                                     payload[b].startDate, payload[b].endDate)
                 => outcome'[b] = ReservationOverlapException)]_vars

\* Two calls with identical input were both refused, the second after a single
\* load and without any commit, next to the call that holds the window.
C13_Witness ==
  \E a, b, w \in Callers :
    /\ a # b /\ payload[a] = payload[b]
    /\ outcome[a] = ReservationOverlapException
    /\ outcome[b] = ReservationOverlapException
    /\ loads[b] = 1 /\ commits[b] = 0 /\ conflicts[a] = 1
    /\ outcome[w] = OK

\* C14: a call for an item id that does not exist returns NotFoundError after
\* a single load, without a retry and without a commit; no item is created or
\* changed by it.
C14_NotFoundSurfacesAtOnce ==
  /\ DOMAIN store = ItemIds
  /\ \A c \in Callers : ItemOf(c) \notin ItemIds =>
       /\ loads[c] <= 1 /\ attempt[c] = 1 /\ commits[c] = 0
       /\ pc[c] \in {"load", "done"}
       /\ snapshot[c] = NoSnapshot
       /\ Done(c) => outcome[c] = NotFoundError /\ loads[c] = 1
       /\ \A i \in ItemIds : \A r \in store[i].reservations :
            r.inventoryItem # ItemOf(c)

\* A call for a missing item has returned although a second attempt was allowed,
\* while another call persisted a reservation.
C14_Witness ==
  \E c, d \in Callers :
    /\ ItemOf(c) \notin ItemIds /\ outcome[c] = NotFoundError
    /\ maxAttempts = MaxAttemptsBound
    /\ outcome[d] = OK


\* --------------------------------------------------------- reachability
\* T holds now or after one step of the command.
Step(T) == T \/ ENABLED (Next /\ T')

Step3(T) == Step(Step(Step(T)))

\* T holds within 9 steps: two loads, two mutations, two flushes and the
\* second attempt of the caller whose flush was rejected.
Step9(T) == Step3(Step3(Step3(T)))

\* T holds within 12 steps: a run of two callers with at most two attempts of
\* three steps each is no longer.
Step12(T) == Step3(Step9(T))

\* no caller has started
Start == \A c \in Callers : loads[c] = 0

BothSucceeded == outcome[1] = OK /\ outcome[2] = OK

\* C15 as stated: from the start of a race of two requests for
\* non-overlapping windows, a state is reachable in which both have had an
\* OptimisticLockError and both have succeeded.
C15_Original ==
  (Start /\ maxAttempts = MaxAttemptsBound /\ ~WindowsOverlap(1, 2)) =>
    Step12(conflicts[1] >= 1 /\ conflicts[2] >= 1 /\ BothSucceeded)

\* C15 amended: of two requests for non-overlapping windows racing only
\* against each other, at most one ever has an OptimisticLockError, and has it
\* once; that execution is reachable, and with maxAttempts >= 2 both requests
\* end in success in it.
C15_OnlyTheLoserConflicts ==
  ~WindowsOverlap(1, 2) =>
    /\ conflicts[1] + conflicts[2] <= 1
    /\ (maxAttempts >= 2 /\ Done(1) /\ Done(2)) => BothSucceeded
    /\ (Start /\ maxAttempts >= 2) =>
         Step9(conflicts[1] + conflicts[2] = 1 /\ BothSucceeded)

\* Caller 2 lost the commit race once, and both succeeded.
C15_Witness ==
  /\ ~WindowsOverlap(1, 2) /\ BothSucceeded
  /\ conflicts[1] = 0 /\ conflicts[2] = 1 /\ loads[2] = 2

\* 'Test12!?' of the unit test "is not the correct length"
Test12 == [upper |-> 1, lower |-> 3, digits |-> 2, symbols |-> 2, other |-> 0]

\* C16: validatePassword returns isValid = false for every password shorter
\* than the minimum length, whatever else it holds, and for the 8-character
\* 'Test12!?' of the unit test.
C16_ShortPasswordRejected ==
  validation # <<>> =>
    /\ Length(password) < MIN_LENGTH => ~validation[1].isValid
    /\ password = Test12 => ~validation[1].isValid

\* C17: after a flush was rejected with OptimisticLockError the snapshot is
\* gone; the next attempt loads the version and the reservations persisted at
\* that moment, and these are what it checks for overlap and submits at commit
\* (a version the discarded snapshot cannot have had).
C17_RetryLoadsAfresh ==
  [][\A c \in Callers : conflicts[c] >= 1 =>
       /\ pc[c] = "load" => snapshot[c] = NoSnapshot
       /\ (pc[c] = "load" /\ pc'[c] = "mutate") =>
            /\ snapshot'[c].version = store[ItemOf(c)].version
            /\ snapshot'[c].reservations = store[ItemOf(c)].reservations
            /\ snapshot'[c].updatedAt = store[ItemOf(c)].updatedAt
       /\ (IsMutate(c) /\ pc'[c] = "flush") =>
            /\ snapshot'[c].version = snapshot[c].version
            /\ {r \in snapshot'[c].reservations : r.id # 0} = snapshot[c].reservations
       /\ snapshot[c].loaded =>
            snapshot[c].version >= InitialVersion + conflicts[c]]_vars

\* A caller is about to commit in its second attempt, on the version the
\* other caller's commit produced.
C17_Witness ==
  \E c \in Callers :
    /\ conflicts[c] = 1 /\ pc[c] = "flush"
    /\ snapshot[c].version = InitialVersion + 1
    /\ Cardinality(snapshot[c].reservations) = 2

\* C18: the reservations of an item change only by a flush that passed the
\* version check; at that moment the reservations the overlap check ran
\* against are exactly those persisted for the item, and the flush adds the
\* one new reservation to them.
C18_PersistedOnlyThroughVersionCheck ==
  [][\A i \in ItemIds : store'[i].reservations # store[i].reservations =>
       \E c \in Callers :
         /\ IsFlush(c) /\ snapshot[c].id = i /\ outcome'[c] = OK
         /\ snapshot[c].version = store[i].version
         /\ {r \in snapshot[c].reservations : r.id # 0} = store[i].reservations
         /\ ~Blocked(c, i)
         /\ \E r \in store'[i].reservations :
              /\ r \notin store[i].reservations
              /\ store'[i].reservations = store[i].reservations \cup {r}
              /\ r.startDate = payload[c].startDate
              /\ r.endDate = payload[c].endDate
              /\ r.userId = payload[c].userId
              /\ r.inventoryItem = i]_vars

\* Two reservations are persisted and a caller had a flush rejected.
C18_Witness ==
  \E i \in ItemIds : \E c \in Callers :
    /\ Cardinality(store[i].reservations) = 2
    /\ conflicts[c] >= 1 /\ outcome[c] = OK

\* C19: the in-memory createReservation leaves the version of the snapshot and
\* the store as they are; when it finds no overlap it adds one reservation and
\* sets updatedAt, and when it throws ReservationOverlapException the snapshot
\* is dropped with nothing added to it.
C19_MutationKeepsVersion ==
  [][\A c \in Callers : IsMutate(c) =>
       /\ store' = store
       /\ IF pc'[c] = "flush"
            THEN /\ snapshot'[c].version = snapshot[c].version
                 /\ snapshot'[c].id = snapshot[c].id
                 /\ snapshot'[c].updatedAt = now' /\ now' >= now
                 /\ \E r \in snapshot'[c].reservations :
                      /\ r \notin snapshot[c].reservations
                      /\ snapshot'[c].reservations = snapshot[c].reservations \cup {r}
                      /\ r.startDate = payload[c].startDate
                      /\ r.endDate = payload[c].endDate
            ELSE /\ lastError'[c] = ReservationOverlapException
                 /\ snapshot'[c] = NoSnapshot
                 /\ now' = now]_vars

\* A mutated snapshot awaits its flush: same version as persisted, one more
\* reservation, a later updatedAt.
C19_Witness ==
  \E c \in Callers :
    /\ pc[c] = "flush"
    /\ snapshot[c].version = store[ItemOf(c)].version
    /\ snapshot[c].updatedAt > store[ItemOf(c)].updatedAt
    /\ Cardinality(snapshot[c].reservations)
         = Cardinality(store[ItemOf(c)].reservations) + 1
    /\ store[ItemOf(c)].reservations # {}

\* C20: a commit is atomic and a caller stops only between attempts: a step
\* changes the reservations of an item exactly when it increments its version,
\* and only an accepted flush does; a caller gives up only when no attempt of
\* it is running, and its giving up leaves the store as it was.
C20_CommitAtomicAbandonClean ==
  [][/\ \A i \in ItemIds :
          /\ store[i].version = InitialVersion + Cardinality(store[i].reservations)
          /\ (store'[i].reservations # store[i].reservations)
               <=> (store'[i].version # store[i].version)
          /\ store'[i] # store[i] =>
               \E c \in Callers :
                 /\ IsFlush(c) /\ snapshot[c].id = i /\ outcome'[c] = OK
                 /\ store'[i].version = store[i].version + 1
                 /\ Cardinality(store'[i].reservations)
                      = Cardinality(store[i].reservations) + 1
     /\ \A c \in Callers :
          /\ (outcome'[c] = Abandoned /\ outcome[c] # Abandoned) =>
               /\ pc[c] = "load" /\ snapshot[c] = NoSnapshot
               /\ store' = store
          /\ outcome[c] = Abandoned =>
               /\ Done(c) /\ snapshot[c] = NoSnapshot
               /\ pc'[c] = pc[c] /\ commits'[c] = commits[c]
               /\ outcome'[c] = Abandoned]_vars

\* A caller gave up after a rejected flush, the other one's commit stands.
C20_Witness ==
  \E c, d \in Callers :
    /\ outcome[c] = Abandoned /\ conflicts[c] = 1
    /\ outcome[d] = OK
    /\ store[1].version = InitialVersion + 1


\* C21: a commit changes the version and the reservations of the item it
\* loaded and of no other item, and a flush is rejected only after a commit of
\* another caller on the same item: callers working on different items never
\* make each other's flush fail.
C21_CommitsOrderedPerItem ==
  [][\A c \in Callers : IsFlush(c) =>
       /\ \A j \in ItemIds \ {snapshot[c].id} : store'[j] = store[j]
       /\ conflicts'[c] > conflicts[c] =>
            /\ store[snapshot[c].id].version > snapshot[c].version
            /\ \E d \in Callers \ {c} :
                 ItemOf(d) = snapshot[c].id /\ outcome[d] = OK
       /\ (\A d \in Callers \ {c} : ItemOf(d) # snapshot[c].id) =>
            outcome'[c] = OK]_vars

\* Two items were each committed to once while a third call was in flight on
\* one of them, and it was the only one to have a flush rejected.
C21_Witness ==
  \E a, b, c \in Callers :
    /\ ItemOf(a) = 1 /\ ItemOf(b) = 2 /\ ItemOf(c) = 1 /\ a # c
    /\ outcome[a] = OK /\ outcome[b] = OK
    /\ conflicts[a] = 0 /\ conflicts[b] = 0 /\ conflicts[c] = 1
    /\ store[2].version = InitialVersion + 1


\* C22: every call returns: it never makes more than maxAttempts loads or
\* more than maxAttempts flushes, whatever the other callers do, and it
\* eventually ends with an outcome.
C22_EveryCallTerminates ==
  /\ [](\A c \in Callers :
          /\ loads[c] <= maxAttempts /\ commits[c] <= maxAttempts
          /\ attempt[c] <= maxAttempts /\ commits[c] <= loads[c])
  /\ \A c \in Callers : <>[](Done(c) /\ outcome[c] # None)

\* A call used every attempt it was allowed, each one rejected at the flush.
C22_Witness ==
  \E c \in Callers :
    /\ Done(c) /\ maxAttempts = MaxAttemptsBound
    /\ loads[c] = maxAttempts /\ commits[c] = maxAttempts
    /\ \A d \in Callers \ {c} : outcome[d] = OK


\* C23: a ReservationOverlapException names a conflicting reservation: one
\* that belongs to the item the call loaded and whose interval overlaps the
\* requested one.
C23_OverlapNamesReservation ==
  \A c \in Callers : lastError[c] = ReservationOverlapException =>
    \E r \in ErrorDetails(lastError[c]) :
      /\ r \in store[ItemOf(c)].reservations
      /\ r.inventoryItem = ItemOf(c)
      /\ Overlaps(payload[c].startDate, payload[c].endDate, r.startDate, r.endDate)


\* C24: a persisted reservation stays persisted with the same startDate,
\* endDate, userId and owning item through every step; every reservation in an
\* item's set has that item as its owner, and a reservation id denotes one
\* reservation only.
C24_ReservationsPermanent ==
  [][\A i \in ItemIds :
       /\ store[i].reservations \subseteq store'[i].reservations
       /\ \A r \in store'[i].reservations : r.inventoryItem = i /\ r.id # 0
       /\ \A r \in store'[i].reservations \ store[i].reservations :
            \A q \in AllReservations : q.id # r.id
       /\ \A r, q \in AllReservations' : r.id = q.id => r = q]_vars

\* Both items hold reservations, item 1 two of them from different commits.
C24_Witness ==
  /\ Cardinality(store[1].reservations) = 2
  /\ Cardinality(store[2].reservations) = 1
  /\ \E r, q \in store[1].reservations : r.id < q.id /\ r.startDate # q.startDate


\* the calls on item i that returned success
Succeeded(i) == {c \in Callers : ItemOf(c) = i /\ outcome[c] = OK}

\* C25: an item holds as many reservations as calls on it returned success:
\* the step in which a call returns success adds exactly one reservation, for
\* the window and user of that call, and a rejected flush, a retry or a call
\* returning an error adds none.
C25_OneReservationPerSuccess ==
  /\ [](\A i \in ItemIds :
          Cardinality(store[i].reservations) = Cardinality(Succeeded(i)))
  /\ [][\A c \in Callers :
          IF outcome[c] # OK /\ outcome'[c] = OK
            THEN \E r \in store'[ItemOf(c)].reservations :
                   /\ r \notin store[ItemOf(c)].reservations
                   /\ store'[ItemOf(c)].reservations
                        = store[ItemOf(c)].reservations \cup {r}
                   /\ r.startDate = payload[c].startDate
                   /\ r.endDate = payload[c].endDate
                   /\ r.userId = payload[c].userId
            ELSE (pc'[c] # pc[c] \/ attempt'[c] # attempt[c]) =>
                   \A i \in ItemIds : store'[i].reservations = store[i].reservations]_vars

\* A call succeeded at its second attempt, another one ran out of attempts:
\* the item holds the two reservations of the two successful calls.
C25_Witness ==
  \E a, b, c \in Callers :
    /\ outcome[a] = OK /\ conflicts[a] = 1 /\ loads[a] = 2
    /\ outcome[b] = OK
    /\ outcome[c] = RetryExhausted /\ commits[c] = 2
    /\ Cardinality(store[ItemOf(a)].reservations) = 2


\* C26: an item created with version 1 and no reservation, and changed only
\* by createReservation commands, always has version = 1 + the number of its
\* persisted reservations.
C26_VersionCountsReservations ==
  \A i \in ItemIds :
    store[i].version = InitialVersion + Cardinality(store[i].reservations)

\* Three commits on one item, one of them after a rejected flush.
C26_Witness ==
  \E i \in ItemIds : \E c \in Callers :
    /\ store[i].version = InitialVersion + NumCallers
    /\ Cardinality(store[i].reservations) = NumCallers
    /\ conflicts[c] >= 1


\* C27: no caller waits for another: a call that has not returned can always
\* take its next step.  A flush is rejected only when an accepted commit of
\* another caller moved the item's version past the one loaded; a flush that
\* holds the persisted version is accepted, and its acceptance makes stale
\* every other snapshot of that version, so of the callers that loaded one
\* version the first to flush succeeds and no other does.
C27_LockFree ==
  [][/\ \A c \in Callers : pc[c] \in {"load", "mutate", "flush"} =>
          ENABLED (Load(c) \/ createReservation(c) \/ Flush(c))
     /\ \A c \in Callers : IsFlush(c) =>
          /\ conflicts'[c] > conflicts[c] =>
               /\ store[snapshot[c].id].version > snapshot[c].version
               /\ \E d \in Callers \ {c} :
                    /\ outcome[d] = OK /\ ItemOf(d) = snapshot[c].id
                    /\ \E r \in store[snapshot[c].id].reservations :
                         r \notin snapshot[c].reservations
          /\ store[snapshot[c].id].version = snapshot[c].version =>
               outcome'[c] = OK
          /\ outcome'[c] = OK =>
               \A d \in Callers \ {c} :
                 (snapshot[d].loaded /\ snapshot[d].id = snapshot[c].id
                    /\ snapshot[d].version = snapshot[c].version) =>
                   /\ snapshot'[d] = snapshot[d]
                   /\ snapshot'[d].version < store'[snapshot[c].id].version]_vars

\* Of three callers that loaded version 1, one committed at once, one after a
\* rejected flush, and the last still holds the version it loaded first.
C27_Witness ==
  \E a, b, c \in Callers :
    /\ outcome[a] = OK /\ conflicts[a] = 0
    /\ outcome[b] = OK /\ conflicts[b] = 1
    /\ pc[c] = "flush" /\ loads[c] = 1
    /\ snapshot[c].version = InitialVersion
    /\ store[1].version = InitialVersion + 2


\* C28: a call ends in ReservationOverlapException only if the store holds a
\* reservation of its item that overlaps the requested window: the
\* reservations a call has loaded are persisted ones, and a call whose window
\* overlaps no persisted reservation ends in success or runs out of attempts.
C28_OverlapOnlyIfPersisted ==
  \A c \in Callers :
    /\ snapshot[c].loaded =>
         {r \in snapshot[c].reservations : r.id # 0}
           \subseteq store[snapshot[c].id].reservations
    /\ lastError[c] = ReservationOverlapException =>
         /\ outcome[c] = ReservationOverlapException
         /\ ItemOf(c) \in ItemIds /\ Blocked(c, ItemOf(c))
    /\ (Done(c) /\ ItemOf(c) \in ItemIds /\ ~Blocked(c, ItemOf(c))) =>
         outcome[c] \in {OK, RetryExhausted}

\* A call found no overlap at its first load, had its flush rejected, and met
\* the other caller's reservation at its second load.
C28_Witness ==
  \E c, d \in Callers :
    /\ outcome[c] = ReservationOverlapException
    /\ loads[c] = 2 /\ commits[c] = 1
    /\ outcome[d] = OK /\ WindowsOverlap(c, d)
    /\ Cardinality(store[1].reservations) = 1


\* C29: a call that runs with no other call in progress never has a flush
\* rejected: it makes one load and at most one flush and returns Ok,
\* ReservationOverlapException or NotFoundError (the source has no
\* ValidationError), never RetryExhausted.
C29_SingleWriterNeverConflicts ==
  \A c \in Callers :
    /\ conflicts[c] = 0 /\ attempt[c] = 1
    /\ loads[c] <= 1 /\ commits[c] <= 1
    /\ lastError[c] # OptimisticLockError
    /\ outcome[c] # RetryExhausted
    /\ Done(c) =>
         /\ loads[c] = 1
         /\ outcome[c] \in {OK, ReservationOverlapException, NotFoundError,
                            ValidationError}
         /\ outcome[c] = OK <=> commits[c] = 1

\* Three calls ran one after the other: one booked, one met that booking, one
\* named a missing item; each made one load although two were allowed.
C29_Witness ==
  \E a, b, c \in Callers :
    /\ outcome[a] = OK /\ outcome[b] = ReservationOverlapException
    /\ outcome[c] = NotFoundError
    /\ maxAttempts = MaxAttemptsBound
    /\ loads[a] = 1 /\ loads[b] = 1 /\ loads[c] = 1

====
